---- MODULE Spec2Model ----
(***************************************************************************)
(* A model of the two GPU resource containers of pbs-rs:                   *)
(*   - Framebuffer      (src/rendering/framebuffer.rs)                     *)
(*   - ProgramPipeline  (pbs_engine/src/core/rendering/program_pipeline.rs)*)
(* The OpenGL driver is the environment: the values it hands back (object  *)
(* names, completeness status, link status, info log, resource locations)  *)
(* are inputs of the actions, and the calls the code issues are recorded   *)
(* in `calls`, the list of driver calls of the most recent operation.      *)
(***************************************************************************)
EXTENDS Integers, Sequences, FiniteSets, TLC

VARIABLES
    new_result,            \* Result<Framebuffer, FramebufferError> of Framebuffer::new
    gl_framebuffers,       \* framebuffer names allocated in the GL context
    gl_status,             \* status the driver reported to check_status
    gl_draw_buffers,       \* draw-target list programmed by NamedFramebufferDrawBuffers
    gl_bound_framebuffer,  \* name bound to GL_FRAMEBUFFER
    viewport,              \* StateManager's viewport
    shaders,               \* ProgramPipeline.shaders
    shader_programs,       \* ProgramPipeline.shader_programs
    gl_programs,           \* program objects of the GL context, by name
    build_count,           \* number of build() calls made so far
    op,                    \* the most recent operation and its arguments
    calls,                 \* driver calls issued by the most recent operation
    ret                    \* what the most recent operation returned

fbVars == <<new_result, gl_framebuffers, gl_status, gl_draw_buffers,
            gl_bound_framebuffer, viewport>>
ppVars == <<shaders, shader_programs, gl_programs, build_count>>
vars == <<new_result, gl_framebuffers, gl_status, gl_draw_buffers,
          gl_bound_framebuffer, viewport, shaders, shader_programs,
          gl_programs, build_count, op, calls, ret>>

None == [tag |-> "None"]
Unit == [tag |-> "Unit"]
NoStatus == "NoStatus"
Panic == [tag |-> "Panic"]
Return(v) == [tag |-> "Return", value |-> v]

\* A panic ends the program: no operation follows it.
Running == ret # Panic

(***************************************************************************)
(* Bounds of the model.                                                    *)
(***************************************************************************)
MaxInfos == 3        \* longest list of attachment requests given to new
MaxBuilds == 2       \* build() calls made on the pipeline

(***************************************************************************)
(* Framebuffer: data.                                                      *)
(***************************************************************************)
COLOR_ATTACHMENT0 == 36064
DEPTH_ATTACHMENT == 36096
STENCIL_ATTACHMENT == 36128
DEPTH_STENCIL_ATTACHMENT == 33306

AttachmentType == {"Texture", "Renderbuffer", "Undefined"}

\* The formats requests are drawn from: one colour format and one or two of
\* each depth class.
Formats == {"Rgba8", "Depth24", "Depth24Stencil8", "StencilIndex8"}

Sizes == {<<256, 256>>, <<512, 256>>}

ColorAttachment(n, i) == [class |-> "ColorAttachment", slot |-> n, index |-> i]
DepthAttachment(n) == [class |-> "DepthAttachment", slot |-> n]
DepthStencilAttachment(n) == [class |-> "DepthStencilAttachment", slot |-> n]
StencilAttachment(n) == [class |-> "StencilAttachment", slot |-> n]

to_gl_enum(bind_point) == bind_point.slot

FramebufferAttachmentCreateInfo ==
    [format : Formats, attachment_type : AttachmentType]

FramebufferAttachment(id, format, attachment_type, attachment_bind_point) ==
    [id |-> id, format |-> format, attachment_type |-> attachment_type,
     attachment_bind_point |-> attachment_bind_point]

Framebuffer(id, size, texture_attachments, renderbuffer_attachments, has_depth) ==
    [id |-> id, size |-> size,
     texture_attachments |-> texture_attachments,
     renderbuffer_attachments |-> renderbuffer_attachments,
     has_depth |-> has_depth]

\* A format table that forgets the stencil-only format.
is_depth_stencil_attachment_no_stencil(format) ==
    CASE format \in {"Depth16", "Depth24", "Depth32", "Depth32f"} ->
             DepthAttachment(DEPTH_ATTACHMENT)
      [] format \in {"Depth24Stencil8", "Depth32fStencil8"} ->
             DepthStencilAttachment(DEPTH_STENCIL_ATTACHMENT)
      [] OTHER -> None

\* A format table that files the depth-stencil formats under depth.
is_depth_stencil_attachment_ds_as_depth(format) ==
    CASE format \in {"Depth16", "Depth24", "Depth32", "Depth32f",
                     "Depth24Stencil8", "Depth32fStencil8"} ->
             DepthAttachment(DEPTH_ATTACHMENT)
      [] format = "StencilIndex8" ->
             StencilAttachment(STENCIL_ATTACHMENT)
      [] OTHER -> None

is_depth_stencil_attachment(format) ==
    CASE format \in {"Depth16", "Depth24", "Depth32", "Depth32f"} ->
             DepthAttachment(DEPTH_ATTACHMENT)
      [] format \in {"Depth24Stencil8", "Depth32fStencil8"} ->
             DepthStencilAttachment(DEPTH_STENCIL_ATTACHMENT)
      [] format = "StencilIndex8" ->
             StencilAttachment(STENCIL_ATTACHMENT)
      [] OTHER -> None

(***************************************************************************)
(* The driver's completeness statuses.  The first five are the ones        *)
(* check_status names or accepts as complete; the last two stand for the   *)
(* further incomplete statuses glCheckNamedFramebufferStatus can report.   *)
(***************************************************************************)
FramebufferStatus ==
    {"FRAMEBUFFER_COMPLETE", "FRAMEBUFFER_UNDEFINED",
     "FRAMEBUFFER_INCOMPLETE_ATTACHMENT",
     "FRAMEBUFFER_INCOMPLETE_MISSING_ATTACHMENT",
     "FRAMEBUFFER_INCOMPLETE_DRAW_BUFFER",
     "FRAMEBUFFER_UNSUPPORTED", "FRAMEBUFFER_INCOMPLETE_MULTISAMPLE"}

Ok(v) == [tag |-> "Ok", value |-> v]
Err(e) == [tag |-> "Err", error |-> e]

\* A status match without the arm for a missing attachment.
check_status_no_missing_arm(status) ==
    CASE status = "FRAMEBUFFER_UNDEFINED" -> Err("Unidentified")
      [] status = "FRAMEBUFFER_INCOMPLETE_ATTACHMENT" -> Err("IncompleteAttachment")
      [] status = "FRAMEBUFFER_INCOMPLETE_DRAW_BUFFER" -> Err("IncompleteDrawBuffer")
      [] OTHER -> Ok(Unit)

check_status(status) ==
    CASE status = "FRAMEBUFFER_UNDEFINED" -> Err("Unidentified")
      [] status = "FRAMEBUFFER_INCOMPLETE_ATTACHMENT" -> Err("IncompleteAttachment")
      [] status = "FRAMEBUFFER_INCOMPLETE_MISSING_ATTACHMENT" ->
             Err("IncompleteMissingAttachment")
      [] status = "FRAMEBUFFER_INCOMPLETE_DRAW_BUFFER" -> Err("IncompleteDrawBuffer")
      [] OTHER -> Ok(Unit)

\* What CheckNamedFramebufferStatus can answer: a framebuffer with no image
\* attached is "missing attachment"; for any other the verdict is the driver's.
CheckNamedFramebufferStatus(attach_calls) ==
    IF attach_calls = <<>>
    THEN {"FRAMEBUFFER_INCOMPLETE_MISSING_ATTACHMENT"}
    ELSE FramebufferStatus \ {"FRAMEBUFFER_INCOMPLETE_MISSING_ATTACHMENT"}

(***************************************************************************)
(* Framebuffer::new.  The accumulator holds the locals the two for_each    *)
(* closures capture.                                                       *)
(***************************************************************************)
NewLocals ==
    [color_attachment_count |-> 0, output_locations |-> <<>>,
     texture_attachments |-> <<>>, renderbuffer_attachments |-> <<>>,
     has_depth_attachment |-> FALSE, calls |-> <<>>]

\* A filter that only drops the Undefined requests.
FilterByType_not_undefined(attachment_create_infos, type) ==
    SelectSeq(attachment_create_infos,
              LAMBDA ci : ci.attachment_type # "Undefined")

FilterByType(attachment_create_infos, type) ==
    SelectSeq(attachment_create_infos, LAMBDA ci : ci.attachment_type = type)

\* The sequential index stored in ColorAttachment(_, i): the counter is read
\* after `color_attachment_count += 1`.
ColorIndex(count_before) == count_before + 1

TextureStep(l, framebuffer_id, create_info, id) ==
    LET bp == is_depth_stencil_attachment(create_info.format) IN
    IF bp # None
    THEN [l EXCEPT
            !.calls = Append(@, [fn |-> "NamedFramebufferTexture",
                                 framebuffer |-> framebuffer_id,
                                 attachment |-> to_gl_enum(bp), image |-> id]),
            !.has_depth_attachment = TRUE,
            !.texture_attachments = Append(@,
                FramebufferAttachment(id, create_info.format,
                                      create_info.attachment_type, bp))]
    ELSE LET output_location == COLOR_ATTACHMENT0 + l.color_attachment_count IN
         [l EXCEPT
            !.output_locations = Append(@, output_location),
            !.color_attachment_count = @ + 1,
            !.calls = Append(@, [fn |-> "NamedFramebufferTexture",
                                 framebuffer |-> framebuffer_id,
                                 attachment |-> output_location, image |-> id]),
            !.texture_attachments = Append(@,
                FramebufferAttachment(id, create_info.format,
                    create_info.attachment_type,
                    ColorAttachment(output_location,
                                    ColorIndex(l.color_attachment_count))))]

RenderbufferStep(l, framebuffer_id, create_info, id) ==
    LET bp == is_depth_stencil_attachment(create_info.format) IN
    IF bp # None
    THEN [l EXCEPT
            !.calls = Append(@, [fn |-> "NamedFramebufferRenderbuffer",
                                 framebuffer |-> framebuffer_id,
                                 attachment |-> to_gl_enum(bp), image |-> id]),
            !.has_depth_attachment = TRUE,
            !.renderbuffer_attachments = Append(@,
                FramebufferAttachment(id, create_info.format,
                                      create_info.attachment_type, bp))]
    ELSE LET output_location == COLOR_ATTACHMENT0 + l.color_attachment_count IN
         [l EXCEPT
            !.output_locations = Append(@, COLOR_ATTACHMENT0 + l.color_attachment_count),
            !.color_attachment_count = @ + 1,
            !.calls = Append(@, [fn |-> "NamedFramebufferRenderbuffer",
                                 framebuffer |-> framebuffer_id,
                                 attachment |-> output_location, image |-> id]),
            !.renderbuffer_attachments = Append(@,
                FramebufferAttachment(id, create_info.format,
                    create_info.attachment_type,
                    ColorAttachment(output_location,
                                    ColorIndex(l.color_attachment_count))))]

\* for_each over create_infos zipped with the names CreateTextures /
\* CreateRenderbuffers wrote into the id vector (1..n in a fresh context).
RECURSIVE TextureLoop(_, _, _, _)
TextureLoop(l, framebuffer_id, infos, k) ==
    IF k > Len(infos) THEN l
    ELSE TextureLoop(TextureStep(l, framebuffer_id, infos[k], k),
                     framebuffer_id, infos, k + 1)

RECURSIVE RenderbufferLoop(_, _, _, _)
RenderbufferLoop(l, framebuffer_id, infos, k) ==
    IF k > Len(infos) THEN l
    ELSE RenderbufferLoop(RenderbufferStep(l, framebuffer_id, infos[k], k),
                          framebuffer_id, infos, k + 1)

\* A constructor whose renderbuffer loop counts colour slots from zero again.
NewBody_counter_per_subset(framebuffer_id, attachment_create_infos) ==
    LET l1 == TextureLoop(NewLocals, framebuffer_id,
                          FilterByType(attachment_create_infos, "Texture"), 1)
    IN  RenderbufferLoop([l1 EXCEPT !.color_attachment_count = 0],
                         framebuffer_id,
                         FilterByType(attachment_create_infos, "Renderbuffer"), 1)

\* The locals of new at the point where NamedFramebufferDrawBuffers is called.
NewBody(framebuffer_id, attachment_create_infos) ==
    LET texture_attachment_create_infos ==
            FilterByType(attachment_create_infos, "Texture")
        renderbuffer_attachment_create_infos ==
            FilterByType(attachment_create_infos, "Renderbuffer")
        l1 == TextureLoop(NewLocals, framebuffer_id,
                          texture_attachment_create_infos, 1)
    IN  RenderbufferLoop(l1, framebuffer_id,
                         renderbuffer_attachment_create_infos, 1)

\* The value new returns once check_status has answered.
NewReturn(checked, framebuffer_id, size, l) ==
    IF checked.tag = "Err"
    THEN Err(checked.error)
    ELSE Ok(Framebuffer(framebuffer_id, size, l.texture_attachments,
                        l.renderbuffer_attachments, l.has_depth_attachment))

InfoLists ==
    UNION {[1..n -> FramebufferAttachmentCreateInfo] : n \in 0..MaxInfos}

\* CreateFramebuffers hands out an unused name.
FreshFramebufferName == 1 + Cardinality(gl_framebuffers)

New ==
    /\ Running
    /\ new_result = None
    /\ \E size \in Sizes, attachment_create_infos \in InfoLists :
         LET framebuffer_id == FreshFramebufferName
             l == NewBody(framebuffer_id, attachment_create_infos)
         IN  \E status \in CheckNamedFramebufferStatus(l.calls) :
               /\ gl_framebuffers' = gl_framebuffers \cup {framebuffer_id}
               /\ gl_draw_buffers' = l.output_locations
               /\ gl_status' = status
               /\ new_result' = NewReturn(check_status(status),
                                          framebuffer_id, size, l)
               /\ op' = [name |-> "new", size |-> size,
                         attachment_create_infos |-> attachment_create_infos]
               /\ calls' = l.calls \o
                     <<[fn |-> "NamedFramebufferDrawBuffers",
                        framebuffer |-> framebuffer_id,
                        bufs |-> l.output_locations],
                       [fn |-> "CheckNamedFramebufferStatus",
                        framebuffer |-> framebuffer_id]>>
               /\ ret' = Unit
    /\ UNCHANGED <<gl_bound_framebuffer, viewport>>
    /\ UNCHANGED ppVars

TheFramebuffer == new_result.value

Live == Running /\ new_result.tag = "Ok"

ClearColors == {<<"0.0", "0.0", "0.0", "1.0">>, <<"0.2", "0.3", "0.3", "1.0">>}

\* The driver call clear issues for one attachment (the match in for_each).
ClearCall(self, attachment, clear_color) ==
    LET bp == attachment.attachment_bind_point IN
    CASE bp.class = "ColorAttachment" ->
             [fn |-> "ClearNamedFramebufferfv", framebuffer |-> self.id,
              buffer |-> "COLOR", drawbuffer |-> bp.index, value |-> clear_color]
      [] bp.class = "DepthAttachment" ->
             [fn |-> "ClearNamedFramebufferfv", framebuffer |-> self.id,
              buffer |-> "DEPTH", drawbuffer |-> 0, value |-> <<"1.0">>]
      [] bp.class = "DepthStencilAttachment" ->
             [fn |-> "ClearNamedFramebufferfi", framebuffer |-> self.id,
              buffer |-> "DEPTH_STENCIL", drawbuffer |-> 0, value |-> <<"1.0", 0>>]
      [] bp.class = "StencilAttachment" ->
             [fn |-> "ClearNamedFramebufferiv", framebuffer |-> self.id,
              buffer |-> "STENCIL", drawbuffer |-> 0, value |-> <<1>>]

\* texture_attachments.iter().chain(renderbuffer_attachments.iter())
ChainedAttachments(self) ==
    self.texture_attachments \o self.renderbuffer_attachments

\* A clear that walks the texture attachments only.
ClearCalls_textures_only(self, clear_color) ==
    [k \in 1..Len(self.texture_attachments) |->
        ClearCall(self, self.texture_attachments[k], clear_color)]

ClearCalls(self, clear_color) ==
    LET chain == ChainedAttachments(self) IN
    [k \in 1..Len(chain) |-> ClearCall(self, chain[k], clear_color)]

Clear ==
    /\ Live
    /\ \E clear_color \in ClearColors :
         /\ op' = [name |-> "clear", clear_color |-> clear_color]
         /\ calls' = ClearCalls(TheFramebuffer, clear_color)
    /\ ret' = Unit
    /\ UNCHANGED fbVars
    /\ UNCHANGED ppVars

\* A viewport call with width and height in each other's place.
Viewport_swapped(x, y, width, height) ==
    [x |-> x, y |-> y, width |-> height, height |-> width]

Viewport(x, y, width, height) ==
    [x |-> x, y |-> y, width |-> width, height |-> height]

Bind ==
    /\ Live
    /\ gl_bound_framebuffer' = TheFramebuffer.id
    /\ viewport' = Viewport(0, 0, TheFramebuffer.size[1], TheFramebuffer.size[2])
    /\ op' = [name |-> "bind"]
    /\ calls' = <<[fn |-> "BindFramebuffer", framebuffer |-> TheFramebuffer.id]>>
    /\ ret' = Unit
    /\ UNCHANGED <<new_result, gl_framebuffers, gl_status, gl_draw_buffers>>
    /\ UNCHANGED ppVars

\* An unbind whose hint names the bind point of every attachment.
UnbindCalls_all_attachments(self, invalidate) ==
    (IF self.renderbuffer_attachments # <<>> /\ invalidate
     THEN <<[fn |-> "InvalidateNamedFramebufferData", framebuffer |-> self.id,
             attachments |->
                 [k \in 1..Len(ChainedAttachments(self)) |->
                     to_gl_enum(ChainedAttachments(self)[k].attachment_bind_point)]]>>
     ELSE <<>>)
    \o <<[fn |-> "BindFramebuffer", framebuffer |-> 0]>>

\* The calls of unbind: the invalidation hint, when given, then the rebind.
UnbindCalls(self, invalidate) ==
    (IF self.renderbuffer_attachments # <<>> /\ invalidate
     THEN <<[fn |-> "InvalidateNamedFramebufferData", framebuffer |-> self.id,
             attachments |->
                 [k \in 1..Len(self.renderbuffer_attachments) |->
                     to_gl_enum(self.renderbuffer_attachments[k].attachment_bind_point)]]>>
     ELSE <<>>)
    \o <<[fn |-> "BindFramebuffer", framebuffer |-> 0]>>

Unbind ==
    /\ Live
    /\ \E invalidate \in BOOLEAN :
         /\ op' = [name |-> "unbind", invalidate |-> invalidate]
         /\ calls' = UnbindCalls(TheFramebuffer, invalidate)
    /\ gl_bound_framebuffer' = 0
    /\ ret' = Unit
    /\ UNCHANGED <<new_result, gl_framebuffers, gl_status, gl_draw_buffers, viewport>>
    /\ UNCHANGED ppVars

\* A lookup that indexes the chained list of all attachments.
get_texture_attachment_chained(self, index) ==
    IF index < Len(ChainedAttachments(self))
    THEN Return(ChainedAttachments(self)[index + 1])
    ELSE Panic

\* assert!(index < len) then the indexed copy (Rust indices are 0-based).
get_texture_attachment(self, index) ==
    IF index < Len(self.texture_attachments)
    THEN Return(self.texture_attachments[index + 1])
    ELSE Panic

GetTextureAttachment ==
    /\ Live
    /\ \E index \in 0..(MaxInfos + 1) :
         /\ op' = [name |-> "get_texture_attachment", index |-> index]
         /\ ret' = get_texture_attachment(TheFramebuffer, index)
    /\ calls' = <<>>
    /\ UNCHANGED fbVars
    /\ UNCHANGED ppVars

\* impl Default for Framebuffer: the value callers hold for "no target".
DefaultFramebuffer == Framebuffer(0, <<0, 0>>, <<>>, <<>>, FALSE)

\* The one driver call of blit and blit_to_default: full extent to full extent.
BlitNamedFramebuffer(read_id, draw_id, src_size, dst_size) ==
    [fn |-> "BlitNamedFramebuffer", read |-> read_id, draw |-> draw_id,
     src |-> <<0, 0, src_size[1], src_size[2]>>,
     dst |-> <<0, 0, dst_size[1], dst_size[2]>>,
     mask |-> {"COLOR_BUFFER_BIT", "DEPTH_BUFFER_BIT", "STENCIL_BUFFER_BIT"},
     filter |-> "NEAREST"]

Blit ==
    /\ Live
    /\ \E source \in {TheFramebuffer, DefaultFramebuffer},
          destination \in {TheFramebuffer, DefaultFramebuffer} :
         /\ op' = [name |-> "blit", source |-> source, destination |-> destination]
         /\ calls' = <<BlitNamedFramebuffer(source.id, destination.id,
                                            source.size, destination.size)>>
    /\ ret' = Unit
    /\ UNCHANGED fbVars
    /\ UNCHANGED ppVars

BlitToDefault ==
    /\ Live
    /\ \E default_framebuffer_size \in Sizes :
         /\ op' = [name |-> "blit_to_default", source |-> TheFramebuffer,
                   default_framebuffer_size |-> default_framebuffer_size]
         /\ calls' = <<BlitNamedFramebuffer(TheFramebuffer.id, 0,
                                            TheFramebuffer.size,
                                            default_framebuffer_size)>>
    /\ ret' = Unit
    /\ UNCHANGED fbVars
    /\ UNCHANGED ppVars

Dropped == [tag |-> "Dropped"]

\* Drop for Framebuffer: DeleteFramebuffers on the handle (a deleted name
\* that is bound is unbound by the driver).
Drop ==
    /\ Live
    /\ gl_framebuffers' = gl_framebuffers \ {TheFramebuffer.id}
    /\ gl_bound_framebuffer' =
          IF gl_bound_framebuffer = TheFramebuffer.id THEN 0
          ELSE gl_bound_framebuffer
    /\ new_result' = Dropped
    /\ op' = [name |-> "drop"]
    /\ calls' = <<[fn |-> "DeleteFramebuffers", framebuffer |-> TheFramebuffer.id]>>
    /\ ret' = Unit
    /\ UNCHANGED <<gl_status, gl_draw_buffers, viewport>>
    /\ UNCHANGED ppVars

(***************************************************************************)
(* ProgramPipeline: data.                                                  *)
(***************************************************************************)
ShaderType ==
    {"Vertex", "TesselationControl", "TesselationEvaluation",
     "Geometry", "Fragment", "Compute"}

Some(v) == [tag |-> "Some", value |-> v]

\* The compiled shader units callers attach: one per stage kind, and a
\* second one for the vertex stage.
ShaderUnits ==
    {[id |-> 1, type |-> "Vertex"], [id |-> 2, type |-> "Vertex"],
     [id |-> 3, type |-> "TesselationControl"],
     [id |-> 4, type |-> "TesselationEvaluation"],
     [id |-> 5, type |-> "Geometry"],
     [id |-> 6, type |-> "Fragment"], [id |-> 7, type |-> "Compute"]}

\* The units the driver's linker rejects (an invalid construct inside).
UnlinkableShaders == {2, 5}

\* The info logs the driver may hold for a program whose link failed, as
\* byte strings without the terminating NUL.
InfoLogs == {<<>>, <<101, 114>>}

\* The name CreateProgramPipelines gave the pipeline in new().
PipelineId == 1

\* A stage table shifted by one slot.
shader_type_to_array_index_shifted(shader_type) ==
    CASE shader_type = "Vertex" -> 1
      [] shader_type = "TesselationControl" -> 2
      [] shader_type = "TesselationEvaluation" -> 3
      [] shader_type = "Geometry" -> 4
      [] shader_type = "Fragment" -> 5
      [] shader_type = "Compute" -> 0

shader_type_to_array_index(shader_type) ==
    CASE shader_type = "Vertex" -> 0
      [] shader_type = "TesselationControl" -> 1
      [] shader_type = "TesselationEvaluation" -> 2
      [] shader_type = "Geometry" -> 3
      [] shader_type = "Fragment" -> 4
      [] shader_type = "Compute" -> 5

\* An add_shader that keeps the shader already attached at the stage.
add_shader_keep_first(slots, shader) ==
    IF slots[shader_type_to_array_index(shader.type)] # None THEN slots
    ELSE [slots EXCEPT ![shader_type_to_array_index(shader.type)] = Some(shader)]

\* add_shader: the slot array after the call.
add_shader(slots, shader) ==
    [slots EXCEPT ![shader_type_to_array_index(shader.type)] = Some(shader)]

AddShader ==
    /\ Running
    /\ \E shader \in ShaderUnits :
         /\ shaders' = add_shader(shaders, shader)
         /\ op' = [name |-> "add_shader", shader |-> shader]
         \* the eprintln! warning when the slot was occupied
         /\ ret' = [tag |-> "Self",
                    warned |-> shaders[shader_type_to_array_index(shader.type)] # None]
    /\ calls' = <<>>
    /\ UNCHANGED <<shader_programs, gl_programs, build_count>>
    /\ UNCHANGED fbVars

(***************************************************************************)
(* build.  The driver's side of a link: LinkProgram sets the program's     *)
(* link status and info log; INFO_LOG_LENGTH counts the terminating NUL    *)
(* and is 0 for an empty log; GetProgramInfoLog writes at most bufSize - 1 *)
(* characters followed by a NUL.                                           *)
(***************************************************************************)
LinkStatus(shader_id) == shader_id \notin UnlinkableShaders

InfoLogLength(info_log) == IF info_log = <<>> THEN 0 ELSE Len(info_log) + 1

GetProgramInfoLog(info_log, buf_size, buffer) ==
    IF buf_size <= 0 THEN buffer
    ELSE LET n == IF Len(info_log) < buf_size - 1 THEN Len(info_log)
                  ELSE buf_size - 1
         IN  [i \in 1..Len(buffer) |->
                 IF i <= n THEN info_log[i]
                 ELSE IF i = n + 1 THEN 0
                 ELSE buffer[i]]

\* A message taken from the buffer before the driver has written the log.
BuildMessage_unread(info_log) ==
    [i \in 1..InfoLogLength(info_log) |-> 32]

\* The String of the Err: message_size spaces, made a CString (a NUL is
\* appended), overwritten by the driver through message.as_ptr(), then every
\* byte but the CString's own terminator (to_string_lossy reads the stored
\* length, not up to the first NUL).
BuildMessage(info_log) ==
    LET message_size == InfoLogLength(info_log)
        buffer == [i \in 1..message_size |-> 32]
        message == Append(buffer, 0)
        written == GetProgramInfoLog(info_log, message_size, message)
    IN  SubSeq(written, 1, Len(written) - 1)

\* A build that empties the program slots before it links.
BuildLocals_slots_cleared ==
    [programs |-> gl_programs, shader_programs |-> [i \in 0..5 |-> None],
     calls |-> <<[fn |-> "BindProgramPipeline", pipeline |-> PipelineId]>>,
     result |-> None]

BuildLocals ==
    [programs |-> gl_programs, shader_programs |-> shader_programs,
     calls |-> <<[fn |-> "BindProgramPipeline", pipeline |-> PipelineId]>>,
     result |-> None]

\* A build that files the program under the stage after the shader's.
StoreProgram_shifted(slots, shader, program_id) ==
    [slots EXCEPT ![shader_type_to_array_index_shifted(shader.type)] = Some(program_id)]

\* Where build files a linked program.
StoreProgram(slots, shader, program_id) ==
    [slots EXCEPT ![shader_type_to_array_index(shader.type)] = Some(program_id)]

\* An iteration that sets PROGRAM_SEPARABLE once the program is linked.
BuildStep_separable_after_link(l, shader, info_log) ==
    LET program_id == Len(l.programs) + 1
        linked == LinkStatus(shader.id)
        program == [shader |-> shader.id, separable_before_link |-> FALSE,
                    linked |-> linked,
                    info_log |-> IF linked THEN <<>> ELSE info_log]
        link_calls ==
            <<[fn |-> "CreateProgram", program |-> program_id],
              [fn |-> "AttachShader", program |-> program_id, shader |-> shader.id],
              [fn |-> "LinkProgram", program |-> program_id],
              [fn |-> "ProgramParameteri", program |-> program_id],
              [fn |-> "GetProgramiv", program |-> program_id, pname |-> "LINK_STATUS"]>>
    IN  IF ~linked
        THEN [l EXCEPT
                !.programs = Append(@, program),
                !.calls = @ \o link_calls \o
                    <<[fn |-> "GetProgramiv", program |-> program_id,
                       pname |-> "INFO_LOG_LENGTH"],
                      [fn |-> "GetProgramInfoLog", program |-> program_id]>>,
                !.result = Err(BuildMessage(program.info_log))]
        ELSE [l EXCEPT
                !.programs = Append(@, program),
                !.calls = @ \o link_calls,
                !.shader_programs = StoreProgram(@, shader, program_id)]

\* One iteration of the for loop for an occupied slot.
BuildStep(l, shader, info_log) ==
    LET program_id == Len(l.programs) + 1
        linked == LinkStatus(shader.id)
        program == [shader |-> shader.id, separable_before_link |-> TRUE,
                    linked |-> linked,
                    info_log |-> IF linked THEN <<>> ELSE info_log]
        link_calls ==
            <<[fn |-> "CreateProgram", program |-> program_id],
              [fn |-> "ProgramParameteri", program |-> program_id],
              [fn |-> "AttachShader", program |-> program_id, shader |-> shader.id],
              [fn |-> "LinkProgram", program |-> program_id],
              [fn |-> "GetProgramiv", program |-> program_id, pname |-> "LINK_STATUS"]>>
    IN  IF ~linked
        THEN [l EXCEPT
                !.programs = Append(@, program),
                !.calls = @ \o link_calls \o
                    <<[fn |-> "GetProgramiv", program |-> program_id,
                       pname |-> "INFO_LOG_LENGTH"],
                      [fn |-> "GetProgramInfoLog", program |-> program_id]>>,
                !.result = Err(BuildMessage(program.info_log))]
        ELSE [l EXCEPT
                !.programs = Append(@, program),
                !.calls = @ \o link_calls,
                !.shader_programs = StoreProgram(@, shader, program_id)]

\* A loop that goes on to the remaining stages after a failed link.
RECURSIVE BuildLoop_continue(_, _, _)
BuildLoop_continue(l, slot, info_log) ==
    IF slot > 5 THEN l
    ELSE IF shaders[slot] = None THEN BuildLoop_continue(l, slot + 1, info_log)
    ELSE BuildLoop_continue(BuildStep(l, shaders[slot].value, info_log),
                            slot + 1, info_log)

\* for option in self.shaders.iter(), left by the return in the failure branch.
RECURSIVE BuildLoop(_, _, _)
BuildLoop(l, slot, info_log) ==
    IF slot > 5 \/ l.result # None THEN l
    ELSE IF shaders[slot] = None THEN BuildLoop(l, slot + 1, info_log)
    ELSE BuildLoop(BuildStep(l, shaders[slot].value, info_log), slot + 1, info_log)

BuildBody ==
    /\ Running
    /\ \E info_log \in InfoLogs :
         LET l == BuildLoop(BuildLocals, 0, info_log) IN
         /\ gl_programs' = l.programs
         /\ shader_programs' = l.shader_programs
         /\ calls' = l.calls
         /\ ret' = IF l.result = None THEN Ok(Unit) ELSE l.result
    /\ op' = [name |-> "build"]
    /\ build_count' = build_count + 1
    /\ UNCHANGED shaders
    /\ UNCHANGED fbVars

Build ==
    /\ build_count < MaxBuilds
    /\ BuildBody

(***************************************************************************)
(* Uniform and texture binding.  The driver's answer to                    *)
(* GetProgramResourceLocation is an input of the action.                   *)
(***************************************************************************)
UniformNames == {"u_model", "u_albedo"}
Locations == {-1, 0, 2}
IntegerValues == {7}
TextureIds == {11}
SamplerIds == {21}

\* A lookup that hands on whatever location the driver answered.
get_shader_stage_id_and_resource_location_unchecked(programs, stage, name, location) ==
    LET program_index == shader_type_to_array_index(stage) IN
    IF programs[program_index] = None
    THEN [calls |-> <<>>, result |-> Err("not present")]
    ELSE [calls |-> <<[fn |-> "GetProgramResourceLocation",
                       program |-> programs[program_index].value,
                       resource_type |-> "UNIFORM", name |-> name]>>,
          result |-> Ok(<<programs[program_index].value, location>>)]

\* The lookup's driver call and its Result; `location` is the driver's answer.
get_shader_stage_id_and_resource_location(programs, stage, name, location) ==
    LET program_index == shader_type_to_array_index(stage) IN
    IF programs[program_index] = None
    THEN [calls |-> <<>>, result |-> Err("not present")]
    ELSE LET program_id == programs[program_index].value IN
         [calls |-> <<[fn |-> "GetProgramResourceLocation",
                       program |-> program_id,
                       resource_type |-> "UNIFORM", name |-> name]>>,
          result |-> IF location < 0
                     THEN Err("not active")
                     ELSE Ok(<<program_id, location>>)]

Self == [tag |-> "Self"]

\* expect(): whether the lookup's Result lets the setter go on.
Expect(lookup) == lookup.result.tag = "Ok"

SetMatrix4f ==
    /\ Running
    /\ \E name \in UniformNames, stage \in ShaderType, location \in Locations :
         LET lookup == get_shader_stage_id_and_resource_location(
                           shader_programs, stage, name, location)
         IN  /\ op' = [name |-> "set_matrix4f", uniform |-> name, stage |-> stage,
                       location |-> location]
             /\ calls' =
                  IF Expect(lookup)
                  THEN lookup.calls \o
                       <<[fn |-> "ProgramUniformMatrix4fv",
                          program |-> lookup.result.value[1],
                          location |-> lookup.result.value[2],
                          count |-> 1, transpose |-> FALSE, value |-> "mat4"]>>
                  ELSE lookup.calls
             /\ ret' = IF Expect(lookup) THEN Self ELSE Panic
    /\ UNCHANGED ppVars
    /\ UNCHANGED fbVars

SetTexture ==
    /\ Running
    /\ \E name \in UniformNames, stage \in ShaderType, location \in Locations,
          texture \in TextureIds, sampler \in SamplerIds :
         LET lookup == get_shader_stage_id_and_resource_location(
                           shader_programs, stage, name, location)
         IN  /\ op' = [name |-> "set_texture", uniform |-> name, stage |-> stage,
                       location |-> location, texture |-> texture,
                       sampler |-> sampler]
             /\ calls' =
                  IF Expect(lookup)
                  THEN lookup.calls \o
                       <<[fn |-> "BindTextureUnit",
                          unit |-> lookup.result.value[2], texture |-> texture],
                         [fn |-> "BindSampler",
                          unit |-> lookup.result.value[2], sampler |-> sampler]>>
                  ELSE lookup.calls
             /\ ret' = IF Expect(lookup) THEN Self ELSE Panic
    /\ UNCHANGED ppVars
    /\ UNCHANGED fbVars

SetInteger ==
    /\ Running
    /\ \E name \in UniformNames, stage \in ShaderType, location \in Locations,
          value \in IntegerValues :
         LET lookup == get_shader_stage_id_and_resource_location(
                           shader_programs, stage, name, location)
         IN  /\ op' = [name |-> "set_integer", uniform |-> name, stage |-> stage,
                       location |-> location, value |-> value]
             /\ calls' =
                  IF Expect(lookup)
                  THEN lookup.calls \o
                       <<[fn |-> "ProgramUniform1i",
                          program |-> lookup.result.value[1],
                          location |-> lookup.result.value[2], value |-> value]>>
                  ELSE lookup.calls
             /\ ret' = IF Expect(lookup) THEN Unit ELSE Panic
    /\ UNCHANGED ppVars
    /\ UNCHANGED fbVars

\* The pipeline as material code uses it: built once, then fed uniforms.
BuildOnce ==
    /\ build_count = 0
    /\ BuildBody

InitFB ==
    /\ new_result = None
    /\ gl_framebuffers = {}
    /\ gl_status = NoStatus
    /\ gl_draw_buffers = <<>>
    /\ gl_bound_framebuffer = 0
    /\ viewport = None

InitPP ==
    /\ shaders = [i \in 0..5 |-> None]
    /\ shader_programs = [i \in 0..5 |-> None]
    /\ gl_programs = <<>>
    /\ build_count = 0

Init ==
    /\ InitFB
    /\ InitPP
    /\ op = [name |-> "none"]
    /\ calls = <<>>
    /\ ret = Unit

NextFB ==
    \/ New
    \/ Clear
    \/ Bind
    \/ Unbind
    \/ GetTextureAttachment
    \/ Blit
    \/ BlitToDefault
    \/ Drop

SpecFB == Init /\ [][NextFB]_vars

NextPP ==
    \/ AddShader
    \/ Build

SpecPP == Init /\ [][NextPP]_vars

NextPU ==
    \/ AddShader
    \/ BuildOnce
    \/ SetMatrix4f
    \/ SetTexture
    \/ SetInteger

SpecPU == Init /\ [][NextPU]_vars

(***************************************************************************)
(* Properties of Framebuffer.                                              *)
(***************************************************************************)
CountIn(seq, P(_)) == Cardinality({k \in 1..Len(seq) : P(seq[k])})

IsColor(attachment) == attachment.attachment_bind_point.class = "ColorAttachment"
IsDepthClass(attachment) ==
    attachment.attachment_bind_point.class \in
        {"DepthAttachment", "DepthStencilAttachment", "StencilAttachment"}

ColorAttachmentsOf(self) == SelectSeq(ChainedAttachments(self), IsColor)

DepthClassFormats ==
    {"Depth16", "Depth24", "Depth32", "Depth32f",
     "Depth24Stencil8", "Depth32fStencil8", "StencilIndex8"}

\* C1: new returns Ok only when the status the driver reported is
\* "complete"; every other status yields an error.
C1_OkOnlyWhenComplete ==
    new_result.tag = "Ok" => gl_status = "FRAMEBUFFER_COMPLETE"

\* C2: in a returned framebuffer the k-th colour attachment (textures first,
\* then renderbuffers, k from 0) carries sequential index k.
C2_ColorIndicesFromZero ==
    Live =>
        \A k \in 1..Len(ColorAttachmentsOf(TheFramebuffer)) :
            ColorAttachmentsOf(TheFramebuffer)[k].attachment_bind_point.index = k - 1

IsDepthClassRequest(ci) ==
    /\ ci.attachment_type \in {"Texture", "Renderbuffer"}
    /\ ci.format \in DepthClassFormats

ClearMatches(call, attachment, rgba) ==
    LET class == attachment.attachment_bind_point.class IN
    /\ class = "ColorAttachment" =>
          /\ call.fn = "ClearNamedFramebufferfv" /\ call.buffer = "COLOR"
          /\ call.value = rgba
    /\ class = "DepthAttachment" =>
          /\ call.fn = "ClearNamedFramebufferfv" /\ call.buffer = "DEPTH"
          /\ call.value = <<"1.0">>
    /\ class = "DepthStencilAttachment" =>
          /\ call.fn = "ClearNamedFramebufferfi" /\ call.buffer = "DEPTH_STENCIL"
          /\ call.value = <<"1.0", 0>>
    /\ class = "StencilAttachment" =>
          /\ call.fn = "ClearNamedFramebufferiv" /\ call.buffer = "STENCIL"
          /\ call.value = <<1>>

\* C10: clear issues exactly one clear call per attachment, textures first
\* then renderbuffers, chosen by the bind-point class; with one colour and
\* one depth attachment that is one colour clear, one depth clear and no
\* stencil clear.
C10_ClearPerAttachment ==
    (Live /\ op.name = "clear") =>
        LET chain == TheFramebuffer.texture_attachments
                        \o TheFramebuffer.renderbuffer_attachments IN
        /\ Len(calls) = Len(chain)
        /\ \A k \in 1..Len(chain) :
              /\ calls[k].framebuffer = TheFramebuffer.id
              /\ ClearMatches(calls[k], chain[k], op.clear_color)
        /\ (CountIn(chain, IsColor) = 1 /\ Len(chain) = 2
            /\ \E k \in 1..2 : chain[k].attachment_bind_point.class = "DepthAttachment")
           => /\ CountIn(calls, LAMBDA c : c.buffer = "COLOR") = 1
              /\ CountIn(calls, LAMBDA c : c.buffer = "DEPTH") = 1
              /\ CountIn(calls, LAMBDA c : c.buffer \in {"STENCIL", "DEPTH_STENCIL"}) = 0

C10_Witness ==
    /\ Live /\ op.name = "clear"
    /\ Len(TheFramebuffer.texture_attachments) = 1
    /\ Len(TheFramebuffer.renderbuffer_attachments) = 1
    /\ IsColor(TheFramebuffer.texture_attachments[1])
    /\ TheFramebuffer.renderbuffer_attachments[1].attachment_bind_point.class
          = "DepthAttachment"
    /\ Len(calls) = 2


\* C11: after bind the active framebuffer target is the framebuffer's handle
\* and the viewport is (0, 0, width, height) of the size given to new; the
\* size new stored is the one it was given, and no operation changes it.
C11_BindSetsTargetAndViewport ==
    [][ /\ op'.name = "bind" =>
              /\ gl_bound_framebuffer' = new_result.value.id
              /\ viewport' = [x |-> 0, y |-> 0,
                              width |-> new_result.value.size[1],
                              height |-> new_result.value.size[2]]
              /\ new_result' = new_result
        /\ (op'.name = "new" /\ new_result'.tag = "Ok") =>
              new_result'.value.size = op'.size
        /\ (new_result.tag = "Ok" /\ new_result'.tag = "Ok") =>
              new_result'.value.size = new_result.value.size
      ]_vars

C11_Witness ==
    /\ op.name = "bind" /\ Live
    /\ TheFramebuffer.size = <<512, 256>>
    /\ viewport = [x |-> 0, y |-> 0, width |-> 512, height |-> 256]
    /\ gl_bound_framebuffer = TheFramebuffer.id

UnbindDone == op.name = "unbind" /\ new_result.tag = "Ok"

HintCalls == SelectSeq(calls, LAMBDA c : c.fn = "InvalidateNamedFramebufferData")

SlotsOf(attachments) ==
    {attachments[k].attachment_bind_point.slot : k \in 1..Len(attachments)}

\* What unbind does apart from the choice of the names in the hint.
UnbindShape ==
    /\ gl_bound_framebuffer = 0
    /\ calls[Len(calls)] = [fn |-> "BindFramebuffer", framebuffer |-> 0]
    /\ Len(HintCalls) =
          (IF op.invalidate /\ TheFramebuffer.renderbuffer_attachments # <<>>
           THEN 1 ELSE 0)
    /\ Len(calls) = Len(HintCalls) + 1
    /\ HintCalls # <<>> =>
          /\ calls[1] = HintCalls[1]
          /\ HintCalls[1].framebuffer = TheFramebuffer.id
          /\ HintCalls[1].attachments =
                [k \in 1..Len(TheFramebuffer.renderbuffer_attachments) |->
                    TheFramebuffer.renderbuffer_attachments[k]
                        .attachment_bind_point.slot]

NewReturnedOk == op.name = "new" /\ new_result.tag = "Ok"

DepthStencilFormats == {"Depth24Stencil8", "Depth32fStencil8"}

\* An attachment of a depth-stencil format sits at the depth-stencil bind
\* point, and the draw-target list has one entry per colour attachment only.
DepthStencilPlacement ==
    /\ \A k \in 1..Len(ChainedAttachments(TheFramebuffer)) :
          LET a == ChainedAttachments(TheFramebuffer)[k] IN
          a.format \in DepthStencilFormats =>
              a.attachment_bind_point =
                  [class |-> "DepthStencilAttachment",
                   slot |-> DEPTH_STENCIL_ATTACHMENT]
    /\ Len(gl_draw_buffers) = CountIn(ChainedAttachments(TheFramebuffer),
                                      LAMBDA a : a.format \notin DepthClassFormats)

\* C13 as stated: has_depth is true exactly when some request has a
\* depth-class format, and false when every request has a colour format; a
\* depth-stencil format is attached at the depth-stencil bind point and is
\* not counted as a colour attachment.
C13_HasDepthIffAnyRequest ==
    NewReturnedOk =>
        /\ TheFramebuffer.has_depth <=>
              \E k \in 1..Len(op.attachment_create_infos) :
                  op.attachment_create_infos[k].format \in DepthClassFormats
        /\ DepthStencilPlacement

\* C13 as amended: has_depth is true exactly when some request of kind
\* Texture or Renderbuffer has a depth-class format; the rest as stated.
C13_HasDepthIffAttachedRequest ==
    NewReturnedOk =>
        /\ TheFramebuffer.has_depth <=>
              \E k \in 1..Len(op.attachment_create_infos) :
                  IsDepthClassRequest(op.attachment_create_infos[k])
        /\ DepthStencilPlacement

C13_Witness ==
    /\ NewReturnedOk /\ gl_status = "FRAMEBUFFER_COMPLETE"
    /\ op.attachment_create_infos =
          <<[format |-> "Depth24Stencil8", attachment_type |-> "Renderbuffer"],
            [format |-> "Rgba8", attachment_type |-> "Texture"]>>
    /\ TheFramebuffer.has_depth
    /\ gl_draw_buffers = <<COLOR_ATTACHMENT0>>

AttachCalls ==
    SelectSeq(calls, LAMBDA c : c.fn \in {"NamedFramebufferTexture",
                                          "NamedFramebufferRenderbuffer"})

\* C14: new with an empty request list attaches nothing, programs an empty
\* draw-target list, and, the driver reporting a missing attachment, returns
\* Err(IncompleteMissingAttachment).
C14_EmptyListIsMissingAttachment ==
    (op.name = "new" /\ op.attachment_create_infos = <<>>) =>
        /\ AttachCalls = <<>>
        /\ gl_draw_buffers = <<>>
        /\ gl_status = "FRAMEBUFFER_INCOMPLETE_MISSING_ATTACHMENT" =>
              new_result = Err("IncompleteMissingAttachment")

C14_Witness ==
    /\ op.name = "new" /\ op.attachment_create_infos = <<>>
    /\ gl_status = "FRAMEBUFFER_INCOMPLETE_MISSING_ATTACHMENT"
    /\ new_result = Err("IncompleteMissingAttachment")
    /\ Len(calls) = 2

\* The positions of the requests of one kind, in caller order.
RECURSIVE PositionsOfKind(_, _, _)
PositionsOfKind(infos, kind, k) ==
    IF k > Len(infos) THEN <<>>
    ELSE (IF infos[k].attachment_type = kind THEN <<k>> ELSE <<>>)
             \o PositionsOfKind(infos, kind, k + 1)

\* The attachment list holds one attachment per request of the kind, in
\* caller order, each with the kind and format of its request.
ListMatchesRequests(attachments, infos, kind) ==
    LET pos == PositionsOfKind(infos, kind, 1) IN
    /\ Len(attachments) = Len(pos)
    /\ \A k \in 1..Len(pos) :
          /\ attachments[k].format = infos[pos[k]].format
          /\ attachments[k].attachment_type = kind

\* C15: after a successful new the texture list and the renderbuffer list
\* hold one attachment per Texture (Renderbuffer) request, in caller order and
\* with the requested format; Undefined requests yield no attachment; no
\* later operation changes either list.
C15_ListsFollowRequests ==
    [][ /\ (op'.name = "new" /\ new_result'.tag = "Ok") =>
              /\ ListMatchesRequests(new_result'.value.texture_attachments,
                                     op'.attachment_create_infos, "Texture")
              /\ ListMatchesRequests(new_result'.value.renderbuffer_attachments,
                                     op'.attachment_create_infos, "Renderbuffer")
              /\ Len(new_result'.value.texture_attachments)
                     + Len(new_result'.value.renderbuffer_attachments)
                     + Len(PositionsOfKind(op'.attachment_create_infos,
                                           "Undefined", 1))
                 = Len(op'.attachment_create_infos)
        /\ (new_result.tag = "Ok" /\ new_result'.tag = "Ok") =>
              /\ new_result'.value.texture_attachments
                     = new_result.value.texture_attachments
              /\ new_result'.value.renderbuffer_attachments
                     = new_result.value.renderbuffer_attachments
      ]_vars

C15_Witness ==
    /\ NewReturnedOk
    /\ op.attachment_create_infos =
          <<[format |-> "Depth24", attachment_type |-> "Renderbuffer"],
            [format |-> "Rgba8", attachment_type |-> "Undefined"],
            [format |-> "Rgba8", attachment_type |-> "Texture"]>>
    /\ Len(TheFramebuffer.texture_attachments) = 1
    /\ TheFramebuffer.texture_attachments[1].format = "Rgba8"
    /\ Len(TheFramebuffer.renderbuffer_attachments) = 1
    /\ TheFramebuffer.renderbuffer_attachments[1].format = "Depth24"

\* C16: once new has returned an error, the framebuffer object it created is
\* no longer allocated in the context.
C16_FailedNewReleasesFramebuffer ==
    (op.name = "new" /\ new_result.tag = "Err") =>
        /\ gl_framebuffers = {}
        /\ calls[Len(calls)].fn = "DeleteFramebuffers"

DepthClassSlots ==
    {DEPTH_ATTACHMENT, STENCIL_ATTACHMENT, DEPTH_STENCIL_ATTACHMENT}

\* The attach calls of new that attach at a colour slot, in call order.
ColorAttachCalls ==
    SelectSeq(AttachCalls, LAMBDA c : c.attachment \notin DepthClassSlots)

DrawBuffersCalls == SelectSeq(calls, LAMBDA c : c.fn = "NamedFramebufferDrawBuffers")

\* The draw-target list is programmed once, after every attach call and
\* directly before the completeness query; it is [COLOR_ATTACHMENT0 + 0 ..
\* COLOR_ATTACHMENT0 + (n - 1)], and entry k is the slot of the k-th colour
\* attach call.
DrawTargetsProgrammed(n) ==
    /\ Len(DrawBuffersCalls) = 1
    /\ Len(calls) = Len(AttachCalls) + 2
    /\ \A k \in 1..Len(AttachCalls) : calls[k] = AttachCalls[k]
    /\ calls[Len(calls) - 1].fn = "NamedFramebufferDrawBuffers"
    /\ calls[Len(calls)].fn = "CheckNamedFramebufferStatus"
    /\ calls[Len(calls) - 1].bufs = [k \in 1..n |-> COLOR_ATTACHMENT0 + (k - 1)]
    /\ gl_draw_buffers = calls[Len(calls) - 1].bufs
    /\ Len(ColorAttachCalls) = n
    /\ \A k \in 1..n :
          ColorAttachCalls[k].attachment = calls[Len(calls) - 1].bufs[k]
    /\ \A k \in 1..Len(AttachCalls) :
          /\ AttachCalls[k].fn = "NamedFramebufferRenderbuffer"
          /\ k < Len(AttachCalls)
          => AttachCalls[k + 1].fn = "NamedFramebufferRenderbuffer"

\* C17 as stated: n is the number of requests with a colour format.
C17_DrawTargetsPerColorRequest ==
    op.name = "new" =>
        DrawTargetsProgrammed(
            CountIn(op.attachment_create_infos,
                    LAMBDA ci : ci.format \notin DepthClassFormats))

\* C17 as amended: n is the number of requests of kind Texture or
\* Renderbuffer with a colour format.
C17_DrawTargetsPerColorAttachment ==
    op.name = "new" =>
        DrawTargetsProgrammed(
            CountIn(op.attachment_create_infos,
                    LAMBDA ci : /\ ci.format \notin DepthClassFormats
                                /\ ci.attachment_type \in {"Texture", "Renderbuffer"}))

C17_Witness ==
    /\ op.name = "new"
    /\ op.attachment_create_infos =
          <<[format |-> "Rgba8", attachment_type |-> "Renderbuffer"],
            [format |-> "Depth24", attachment_type |-> "Texture"],
            [format |-> "Rgba8", attachment_type |-> "Texture"]>>
    /\ gl_draw_buffers = <<COLOR_ATTACHMENT0, COLOR_ATTACHMENT0 + 1>>
    /\ calls[3].fn = "NamedFramebufferRenderbuffer"
    /\ calls[3].attachment = COLOR_ATTACHMENT0 + 1

\* C18: the draw-buffer index clear passes for a colour attachment is the
\* 0-based position of the attachment's slot in the draw-target list, so it
\* is below the number of colour attachments.
C18_ClearIndexIsDrawTargetPosition ==
    op.name = "clear" =>
        \A k \in 1..Len(ChainedAttachments(TheFramebuffer)) :
            LET attachment == ChainedAttachments(TheFramebuffer)[k] IN
            IsColor(attachment) =>
                /\ calls[k].drawbuffer \in 0..(Len(gl_draw_buffers) - 1)
                /\ calls[k].drawbuffer < Len(ColorAttachmentsOf(TheFramebuffer))
                /\ gl_draw_buffers[calls[k].drawbuffer + 1]
                       = attachment.attachment_bind_point.slot

(***************************************************************************)
(* Properties of ProgramPipeline.                                          *)
(***************************************************************************)
\* The slot of each stage kind (data model: Vertex 0 .. Compute 5).
StageSlot ==
    [t \in ShaderType |->
        CASE t = "Vertex" -> 0
          [] t = "TesselationControl" -> 1
          [] t = "TesselationEvaluation" -> 2
          [] t = "Geometry" -> 3
          [] t = "Fragment" -> 4
          [] t = "Compute" -> 5]

UnitType(shader_id) == (CHOOSE u \in ShaderUnits : u.id = shader_id).type

OccupiedSlots == {i \in 0..5 : shaders[i] # None}

CallsNamed(fn) == SelectSeq(calls, LAMBDA c : c.fn = fn)

BuildDone == op.name = "build"

\* C4: after a build in which every link succeeded, the program slot of a
\* stage holds a linked program, made from a shader of that stage, if and
\* only if a shader is attached at that stage; no program serves two stages.
C4_ProgramIffShader ==
    (BuildDone /\ ret.tag = "Ok") =>
        /\ \A t \in ShaderType :
              LET i == StageSlot[t] IN
              /\ (shader_programs[i] # None) <=> (shaders[i] # None)
              /\ shader_programs[i] # None =>
                    /\ shader_programs[i].value \in 1..Len(gl_programs)
                    /\ gl_programs[shader_programs[i].value].linked
                    /\ UnitType(gl_programs[shader_programs[i].value].shader) = t
                    /\ shaders[i].value.type = t
        /\ \A i, j \in 0..5 :
              (i # j /\ shader_programs[i] # None) =>
                  shader_programs[i] # shader_programs[j]

C4_Witness ==
    /\ BuildDone /\ ret.tag = "Ok" /\ build_count = 1
    /\ Cardinality(OccupiedSlots) = 3
    /\ shaders[1] # None /\ shaders[4] # None
    /\ shader_programs[0] = None

\* What build did for the shaders attached when it ran.
BuildLinksOnlyAttached ==
    /\ \A k \in 1..Len(calls) :
          calls[k].fn = "AttachShader" =>
              \E i \in OccupiedSlots : shaders[i].value.id = calls[k].shader
    /\ \A i \in OccupiedSlots :
          Len(SelectSeq(calls, LAMBDA c : c.fn = "AttachShader"
                                          /\ UnitType(c.shader) = shaders[i].value.type))
              <= 1
    /\ ret.tag = "Ok" =>
          \A i \in OccupiedSlots :
              /\ Len(SelectSeq(calls, LAMBDA c : c.fn = "AttachShader"
                                    /\ c.shader = shaders[i].value.id)) = 1
              /\ gl_programs[shader_programs[i].value].shader = shaders[i].value.id

\* C5: add_shader stores its argument at the slot of the argument's stage,
\* replacing what was there, and leaves the other five slots as they were;
\* build creates and links one program per stage, from the shader attached
\* last, and none from a replaced shader.
C5_LastWriteWins ==
    [][ /\ op'.name = "add_shader" =>
              /\ shaders'[StageSlot[op'.shader.type]] = Some(op'.shader)
              /\ \A i \in 0..5 :
                    i # StageSlot[op'.shader.type] => shaders'[i] = shaders[i]
              /\ shader_programs' = shader_programs
        /\ op'.name = "build" => (shaders' = shaders /\ BuildLinksOnlyAttached')
      ]_vars

C5_Witness ==
    /\ BuildDone /\ ret.tag = "Ok" /\ build_count = 2
    /\ shader_programs[0] # None
    /\ gl_programs[1].shader = 2 /\ ~gl_programs[1].linked
    /\ shaders[0] = Some([id |-> 1, type |-> "Vertex"])
    /\ gl_programs[shader_programs[0].value].shader = 1
    /\ Cardinality(OccupiedSlots) >= 2

FailedProgram == gl_programs[Len(gl_programs)]

AttachedInOrder ==
    LET a == CallsNamed("AttachShader") IN [k \in 1..Len(a) |-> a[k].shader]

\* C7: build visits the occupied slots in ascending slot order and stops at
\* the first stage whose link fails: a program is created, and a link
\* attempted, for an occupied slot exactly when no occupied slot below it
\* holds a shader the driver fails to link.
C7_StopsAtFirstFailure ==
    BuildDone =>
        /\ \A i \in OccupiedSlots :
              (\E k \in 1..Len(AttachedInOrder) :
                    AttachedInOrder[k] = shaders[i].value.id)
              <=> (\A j \in OccupiedSlots :
                      j < i => shaders[j].value.id \notin UnlinkableShaders)
        /\ \A a, b \in 1..Len(AttachedInOrder) :
              a < b => StageSlot[UnitType(AttachedInOrder[a])]
                          < StageSlot[UnitType(AttachedInOrder[b])]
        /\ Len(CallsNamed("CreateProgram")) = Len(AttachedInOrder)
        /\ Len(CallsNamed("LinkProgram")) = Len(AttachedInOrder)
        /\ (ret.tag = "Err") <=>
              (\E i \in OccupiedSlots : shaders[i].value.id \in UnlinkableShaders)

C7_Witness ==
    /\ BuildDone /\ ret.tag = "Err"
    /\ shaders[0] # None /\ shaders[3] # None /\ shaders[4] # None /\ shaders[5] # None
    /\ shaders[0].value.id = 1
    /\ Len(AttachedInOrder) = 2
    /\ shader_programs[4] = None

Setters == {"set_matrix4f", "set_integer", "set_texture"}

CreatedPrograms ==
    LET c == CallsNamed("CreateProgram") IN [k \in 1..Len(c) |-> c[k].program]

\* The driver calls of the most recent build that name program p.
ProgramCalls(p) ==
    SelectSeq(calls, LAMBDA c : "program" \in DOMAIN c /\ c.program = p)

StoredPrograms == {shader_programs[i].value : i \in {j \in 0..5 : shader_programs[j] # None}}

\* C19: for every program build creates, the driver calls come in the order
\* create, set separable, attach, link, query link status; the separable flag
\* is not set after the link; a handle is in a slot only if the link status
\* read for it was success.
C19_LinkCallOrder ==
    BuildDone =>
        /\ \A k \in 1..Len(CreatedPrograms) :
              LET p == CreatedPrograms[k]
                  pc == ProgramCalls(p)
              IN  /\ Len(pc) >= 5
                  /\ [j \in 1..5 |-> pc[j].fn] =
                        <<"CreateProgram", "ProgramParameteri", "AttachShader",
                          "LinkProgram", "GetProgramiv">>
                  /\ pc[5].pname = "LINK_STATUS"
                  /\ pc[3].shader = gl_programs[p].shader
                  /\ \A j \in 6..Len(pc) : pc[j].fn # "ProgramParameteri"
                  /\ gl_programs[p].separable_before_link
                  /\ p \in StoredPrograms => gl_programs[p].linked
                  /\ gl_programs[p].linked = (Len(pc) = 5)
        /\ \A p \in StoredPrograms :
              /\ p \in 1..Len(gl_programs)
              /\ gl_programs[p].linked

C19_Witness ==
    /\ BuildDone /\ ret.tag = "Err"
    /\ Len(CreatedPrograms) = 3
    /\ CreatedPrograms[1] \in StoredPrograms
    /\ CreatedPrograms[2] \in StoredPrograms
    /\ CreatedPrograms[3] \notin StoredPrograms
    /\ Len(ProgramCalls(CreatedPrograms[3])) = 7

\* The slot at which a build of the current shader slots fails: the lowest
\* occupied slot holding a shader the driver does not link.
FailingSlots == {i \in OccupiedSlots : shaders[i].value.id \in UnlinkableShaders}
FirstFailingSlot == CHOOSE i \in FailingSlots : \A j \in FailingSlots : i <= j

\* C20: a build that fails at slot k leaves every occupied slot below k with
\* the program this call linked for it, leaves slot k and every slot above
\* it as they were, leaves the shader slots as they were, neither stores nor
\* deletes the program whose link failed, and leaves the pipeline usable.
C20_FailedBuildIsPartial ==
    [][ (op'.name = "build" /\ ret'.tag = "Err") =>
          /\ FailingSlots # {}
          /\ LET k == FirstFailingSlot
                 failed == Len(gl_programs')
                 fresh == (Len(gl_programs) + 1)..Len(gl_programs')
             IN  /\ gl_programs'[failed].shader = shaders[k].value.id
                 /\ ~gl_programs'[failed].linked
                 /\ \A i \in 0..5 :
                       IF i < k /\ shaders[i] # None
                       THEN /\ shader_programs'[i] # None
                            /\ shader_programs'[i].value \in fresh
                            /\ shader_programs'[i].value # failed
                            /\ gl_programs'[shader_programs'[i].value].linked
                            /\ gl_programs'[shader_programs'[i].value].shader
                                   = shaders[i].value.id
                       ELSE shader_programs'[i] = shader_programs[i]
                 /\ \A i \in 0..5 : shader_programs'[i] # Some(failed)
                 /\ SubSeq(gl_programs', 1, Len(gl_programs)) = gl_programs
                 /\ \A c \in 1..Len(calls') : calls'[c].fn # "DeleteProgram"
          /\ shaders' = shaders
          /\ ret' # Panic
      ]_vars

C20_Witness ==
    /\ BuildDone /\ ret.tag = "Err"
    /\ FailingSlots # {}
    /\ \E i, j \in 0..5 :
          /\ i < FirstFailingSlot /\ FirstFailingSlot < j
          /\ shader_programs[i] # None
          /\ shader_programs[i].value \in {CreatedPrograms[n] : n \in 1..Len(CreatedPrograms)}
          /\ shader_programs[j] # None
          /\ shader_programs[j].value \notin {CreatedPrograms[n] : n \in 1..Len(CreatedPrograms)}
    /\ shader_programs[FirstFailingSlot] = None

====
